---- MODULE Spec2Model ----
(***************************************************************************)
(* The content pipeline of the blog: the JSON post index                   *)
(* (src/routes/api/posts/+server.ts) and the routes that read it (blog     *)
(* listing, tag listing, home page, Atom feed, sitemap).                   *)
(*                                                                         *)
(* JavaScript values are records [t, s, n]: t is the typeof tag ("Date"    *)
(* for a Date object), s the payload of a string, n the payload of a       *)
(* number, a boolean (1/0) or a Date (its time value).  Strings the code   *)
(* takes apart (paths, slugs) are sequences of pieces: the characters of a *)
(* file name one by one, a directory name (which the code never looks      *)
(* into) as one piece.                                                     *)
(* Time values are counted in days since 1970-01-01 (getTime()/86400000):  *)
(* every date of the model is a UTC midnight.                              *)
(*                                                                         *)
(* paths is the source collection (what import.meta.glob gives), response  *)
(* the answer of the route being rendered, built the post index of the     *)
(* build before with the collection it was made from (kept while the site  *)
(* is built again and again, RebuildSpec).                                 *)
(***************************************************************************)
EXTENDS Integers, Sequences, FiniteSets, TLC

VARIABLES paths, response, built

vars == <<paths, response, built>>

\* ------------------------------------------------------------------ bounds

\* Source files in the posts directory.
MaxFiles == 3

\* Pieces ("a" or ".md") a file name is put together from, before its extension.
MaxPieces == 3

\* Source files in the posts directory while it is edited between builds.
MaxEditedFiles == 2

\* ------------------------------------------------------------- JS values

Undef == [t |-> "undefined", s |-> "", n |-> 0]

Bool(b) == [t |-> "boolean", s |-> "", n |-> IF b THEN 1 ELSE 0]

Str(s) == [t |-> "string", s |-> s, n |-> 0]

Num(n) == [t |-> "number", s |-> "", n |-> n]

DateObj(n) == [t |-> "Date", s |-> "", n |-> n]

\* ToBoolean of a value, as `&&` and `?:` apply it.
Truthy(v) ==
  CASE v.t = "undefined" -> FALSE
    [] v.t = "boolean" -> v.n = 1
    [] v.t = "string" -> v.s # ""
    [] v.t = "number" -> v.n # 0
    [] v.t = "Date" -> TRUE

\* a ?? b
Coalesce(a, b) == IF a.t = "undefined" THEN b ELSE a

\* A tags array, and the missing `tags` field.
TagsArr(items) == [t |-> "array", items |-> items]

TagsUndef == [t |-> "undefined", items |-> <<>>]

\* A slug: a string kept as its characters, and the missing `slug` field.
SlugStr(chars) == [t |-> "string", chars |-> chars]

SlugUndef == [t |-> "undefined", chars |-> <<>>]

\* ----------------------------------------------------------------- dates

\* A JS number: NaN, or an integer.
NaN == [nan |-> TRUE, v |-> 0]

Number(n) == [nan |-> FALSE, v |-> n]

\* Date.parse of the date strings of the model; any other string is no date.
DateParse(s) ==
  CASE s = "2023-10-13" -> Number(19643)
    [] s = "2023-11-23" -> Number(19684)
    [] s = "2024-06-22" -> Number(19896)
    [] s = "2023-10-13T00:00:00.000Z" -> Number(19643)
    [] s = "2023-11-23T00:00:00.000Z" -> Number(19684)
    [] s = "2024-06-22T00:00:00.000Z" -> Number(19896)
    [] OTHER -> NaN

\* new Date(v).getTime()
GetTime(v) ==
  CASE v.t = "string" -> DateParse(v.s)
    [] v.t = "Date" -> Number(v.n)
    [] v.t = "undefined" -> NaN

\* Date.prototype.toISOString of a valid time value.
ISOString(n) ==
  CASE n = 19643 -> "2023-10-13T00:00:00.000Z"
    [] n = 19684 -> "2023-11-23T00:00:00.000Z"
    [] n = 19896 -> "2024-06-22T00:00:00.000Z"

\* x - y on numbers
Minus(x, y) == IF x.nan \/ y.nan THEN NaN ELSE Number(x.v - y.v)

\* x > y on numbers: false when either is NaN
Greater(x, y) == ~x.nan /\ ~y.nan /\ x.v > y.v

\* --------------------------------------------------------------- strings

\* '/src/lib/posts/'
PostsDir == <<"/", "src", "/", "lib", "/", "posts", "/">>

\* '.md'
DotMd == <<".", "m", "d">>

RECURSIVE SplitFrom(_, _, _)
\* The segments of s after position i, cur being the segment read so far.
SplitFrom(s, i, cur) ==
  IF i > Len(s) THEN <<cur>>
  ELSE IF s[i] = "/" THEN <<cur>> \o SplitFrom(s, i + 1, <<>>)
  ELSE SplitFrom(s, i + 1, Append(cur, s[i]))

\* s.split('/')
Split(s) == SplitFrom(s, 1, <<>>)

\* Whether pat occurs in s at position i.
OccursAt(s, pat, i) ==
  /\ i + Len(pat) - 1 <= Len(s)
  /\ \A k \in 1..Len(pat) : s[i + k - 1] = pat[k]

\* s.replace(pat, ''): the first occurrence of pat removed, s when there is none.
ReplaceFirst(s, pat) ==
  LET hits == {i \in 1..Len(s) : OccursAt(s, pat, i)}
  IN IF hits = {} THEN s
     ELSE LET i == CHOOSE j \in hits : \A k \in hits : j <= k
          IN SubSeq(s, 1, i - 1) \o SubSeq(s, i + Len(pat), Len(s))

\* path.split('/').at(-1)?.replace('.md', '')
SlugOf(path) ==
  LET segments == Split(path)
  IN ReplaceFirst(segments[Len(segments)], DotMd)

\* ------------------------------------------------------------ Array sort

\* Array.prototype.sort calls the comparator and reads a NaN result as +0.
SortOrder(order) == IF order.nan THEN 0 ELSE order.v

RECURSIVE RunLength(_, _, _, _)
\* CountAndMakeRun's loop: the length of the run that starts the array, idx
\* being the next position to look at (1-based).  cmp[<<x, y>>] is the
\* comparator's result on (x, y).
RunLength(a, cmp, idx, isDescending) ==
  IF idx > Len(a) THEN Len(a)
  ELSE LET order == SortOrder(cmp[<<a[idx], a[idx - 1]>>])
       IN IF (isDescending /\ order >= 0) \/ (~isDescending /\ order < 0)
          THEN idx - 1
          ELSE RunLength(a, cmp, idx + 1, isDescending)

Reverse(a) == [i \in 1..Len(a) |-> a[Len(a) + 1 - i]]

RECURSIVE BinarySearch(_, _, _, _, _)
\* The insertion point of pivot in the sorted prefix (0-based bounds left,
\* right as in the engine).
BinarySearch(a, cmp, pivot, left, right) ==
  IF left >= right THEN left
  ELSE LET mid == left + ((right - left) \div 2)
           order == SortOrder(cmp[<<pivot, a[mid + 1]>>])
       IN IF order < 0
          THEN BinarySearch(a, cmp, pivot, left, mid)
          ELSE BinarySearch(a, cmp, pivot, mid + 1, right)

RECURSIVE BinaryInsertionSort(_, _, _)
\* a with its first `start` elements sorted; inserts the others one by one.
BinaryInsertionSort(a, cmp, start) ==
  IF start >= Len(a) THEN a
  ELSE LET pivot == a[start + 1]
           left == BinarySearch(a, cmp, pivot, 0, start)
           moved == SubSeq(a, 1, left) \o <<pivot>> \o SubSeq(a, left + 1, start)
                      \o SubSeq(a, start + 2, Len(a))
       IN BinaryInsertionSort(moved, cmp, start + 1)

\* Array.prototype.sort(cmp) as Node's engine runs it on an array shorter than
\* 64: the run at the start is counted (and reversed when strictly
\* descending), the rest is inserted by binary insertion.  With a consistent
\* comparator this is the stable sort the language requires; with an
\* inconsistent one the language leaves the order to the engine.
ArraySort(a, cmp) ==
  IF Len(a) < 2 THEN a
  ELSE LET isDescending == SortOrder(cmp[<<a[2], a[1]>>]) < 0
           run == RunLength(a, cmp, 3, isDescending)
           made == IF isDescending
                   THEN Reverse(SubSeq(a, 1, run)) \o SubSeq(a, run + 1, Len(a))
                   ELSE a
       IN BinaryInsertionSort(made, cmp, run)

\* The elements of an array.
Elements(a) == {a[i] : i \in 1..Len(a)}

\* ------------------------------------------------------- the post index

\* paths[path].metadata: the module's metadata, undefined when it exports none.
MetadataOf(file) == file.metadata

\* metadata.published, without the `?.`: a TypeError on a module without metadata.
PublishedOrThrow(metadata) ==
  IF metadata.defined
  THEN [threw |-> FALSE, val |-> metadata.fields.published]
  ELSE [threw |-> TRUE, val |-> Undef]

\* metadata?.published
OptionalPublished(metadata) ==
  IF metadata.defined
  THEN [threw |-> FALSE, val |-> metadata.fields.published]
  ELSE [threw |-> FALSE, val |-> Undef]

\* metadata?.published !== undefined && slug: the flag's presence, not its value.
IncludedWhenFlagged(published, slug) == published.t # "undefined" /\ slug # <<>>

\* metadata?.published, without `&& slug`
IncludedAnySlug(published, slug) == Truthy(published)

\* metadata?.published && slug
Included(published, slug) == Truthy(published) /\ slug # <<>>

\* { slug, ...metadata }: a slug the metadata declares wins over the derived one.
MergeSlugFirst(fields, slug) ==
  IF fields.slug.t = "undefined" THEN [fields EXCEPT !.slug = SlugStr(slug)] ELSE fields

\* { ...metadata, slug }
MergeSlug(fields, slug) == [fields EXCEPT !.slug = SlugStr(slug)]

\* (a, b) => new Date(b.date).getTime() - new Date(a.date).getTime()
ByDateDesc(a, b) == Minus(GetTime(b.date), GetTime(a.date))

RECURSIVE ReducePosts(_, _, _)
\* Object.keys(paths).reduce(...) from key i on; acc.threw once a step threw.
ReducePosts(ps, i, acc) ==
  IF i > Len(ps) \/ acc.threw THEN acc
  ELSE LET metadata == MetadataOf(ps[i])
           slug == SlugOf(ps[i].path)
           published == OptionalPublished(metadata)
       IN IF published.threw
          THEN [threw |-> TRUE, posts |-> <<>>]
          ELSE ReducePosts(ps, i + 1,
                 IF Included(published.val, slug)
                 THEN [acc EXCEPT !.posts =
                         Append(@, MergeSlug(metadata.fields, slug))]
                 ELSE acc)

\* The handler with its accumulator kept outside the function: the reduce
\* goes on from the posts of the invocation before.
ListPublishedPostsCarried(ps) ==
  LET reduced == ReducePosts(ps, 1, [threw |-> FALSE, posts |-> built.posts])
  IN IF reduced.threw THEN reduced
     ELSE [threw |-> FALSE,
           posts |-> ArraySort(reduced.posts,
                       [p \in Elements(reduced.posts) \X Elements(reduced.posts)
                          |-> ByDateDesc(p[1], p[2])])]

\* The handler of /api/posts, before json(): [threw, posts].
ListPublishedPosts(ps) ==
  LET reduced == ReducePosts(ps, 1, [threw |-> FALSE, posts |-> <<>>])
  IN IF reduced.threw THEN reduced
     ELSE [threw |-> FALSE,
           posts |-> ArraySort(reduced.posts,
                       [p \in Elements(reduced.posts) \X Elements(reduced.posts)
                          |-> ByDateDesc(p[1], p[2])])]

\* ------------------------------------------------- the routes' fetch

\* JSON.stringify then JSON.parse of a value: a Date is written as its ISO
\* string; an undefined field is left out and reads back as undefined.
JsonValue(v) == IF v.t = "Date" THEN Str(ISOString(v.n)) ELSE v

\* response.json() of json(posts)
JsonRoundTrip(posts) ==
  [i \in 1..Len(posts) |->
     [posts[i] EXCEPT !.title = JsonValue(@), !.date = JsonValue(@),
                      !.updated = JsonValue(@), !.description = JsonValue(@),
                      !.published = JsonValue(@)]]

\* fetch(`${base}/api/posts`) and response.json(): [threw, posts].
FetchPosts(ps) ==
  LET listed == ListPublishedPosts(ps)
  IN IF listed.threw THEN listed
     ELSE [threw |-> FALSE, posts |-> JsonRoundTrip(listed.posts)]

\* -------------------------------------------------------------- helpers

RECURSIVE ReduceLastUpdatedByDate(_, _, _)
\* The reduce of lastUpdated reading post.date alone, without `post.updated ??`.
ReduceLastUpdatedByDate(posts, i, acc) ==
  IF i > Len(posts) THEN acc
  ELSE ReduceLastUpdatedByDate(posts, i + 1,
         IF Greater(GetTime(posts[i].date), GetTime(acc)) THEN posts[i].date ELSE acc)

RECURSIVE ReduceLastUpdated(_, _, _)
\* posts.reduce(...) of lastUpdated from post i on.
ReduceLastUpdated(posts, i, acc) ==
  IF i > Len(posts) THEN acc
  ELSE LET date == Coalesce(posts[i].updated, posts[i].date)
       IN ReduceLastUpdated(posts, i + 1,
            IF Greater(GetTime(date), GetTime(acc)) THEN date ELSE acc)

\* lastUpdated seeded with posts[0]?.date: undefined for an empty array, no throw.
LastUpdatedOptional(posts) ==
  IF posts = <<>>
  THEN [threw |-> FALSE, val |-> Undef]
  ELSE [threw |-> FALSE, val |-> ReduceLastUpdated(posts, 1, posts[1].date)]

\* lastUpdated seeded with posts[0]?.date ?? '1970-01-01': a default for an
\* empty array, no throw.
LastUpdatedDefaulted(posts) ==
  IF posts = <<>>
  THEN [threw |-> FALSE, val |-> Str("1970-01-01")]
  ELSE [threw |-> FALSE, val |-> ReduceLastUpdated(posts, 1, posts[1].date)]

\* lastUpdated seeded with posts[0].updated ?? posts[0].date.
LastUpdatedFromEffective(posts) ==
  IF posts = <<>>
  THEN [threw |-> TRUE, val |-> Undef]
  ELSE [threw |-> FALSE,
        val |-> ReduceLastUpdated(posts, 1, Coalesce(posts[1].updated, posts[1].date))]

\* lastUpdated(posts): posts[0].date of an empty array is a TypeError.
LastUpdated(posts) ==
  IF posts = <<>>
  THEN [threw |-> TRUE, val |-> Undef]
  ELSE [threw |-> FALSE, val |-> ReduceLastUpdated(posts, 1, posts[1].date)]

\* new Date(v).toISOString(): a RangeError on an invalid date.
ToISOString(v) ==
  LET time == GetTime(v)
  IN IF time.nan THEN [threw |-> TRUE, val |-> Undef]
     ELSE [threw |-> FALSE, val |-> Str(ISOString(time.v))]

\* ------------------------------------------------------------ home page

\* Names every object inherits from Object.prototype.
ObjectPrototypeKeys ==
  {"constructor", "hasOwnProperty", "isPrototypeOf", "propertyIsEnumerable",
   "toLocaleString", "toString", "valueOf", "__proto__", "__defineGetter__",
   "__defineSetter__", "__lookupGetter__", "__lookupSetter__"}

\* posts.map((p) => p.tags[0]): the first tag of each post alone.
RECURSIVE FlatFirstTags(_, _)
FlatFirstTags(posts, i) ==
  IF i > Len(posts) THEN <<>>
  ELSE (IF posts[i].tags.t = "array" /\ posts[i].tags.items # <<>>
        THEN <<posts[i].tags.items[1]>>
        ELSE <<"undefined">>) \o FlatFirstTags(posts, i + 1)

\* posts.flatMap((p) => p.tags): a missing tags field gives one undefined
\* element, which the computed key below reads as "undefined".
RECURSIVE FlatTags(_, _)
FlatTags(posts, i) ==
  IF i > Len(posts) THEN <<>>
  ELSE (IF posts[i].tags.t = "array" THEN posts[i].tags.items
        ELSE <<"undefined">>) \o FlatTags(posts, i + 1)

\* The own keys of the count object, in insertion order.
OwnKeys(tagMap) == [i \in 1..Len(tagMap) |-> tagMap[i].key]

\* 1 + (tagMap[tag] ?? 0): an own count when there is one, else what the
\* prototype holds under that name (a function, which `+` turns into a
\* string), else 0.  A count is [num, n]; num is false for such a string.
NextCount(tagMap, tag) ==
  IF \E i \in 1..Len(tagMap) : tagMap[i].key = tag
  THEN LET i == CHOOSE j \in 1..Len(tagMap) : tagMap[j].key = tag
       IN IF tagMap[i].val.num
          THEN [num |-> TRUE, n |-> 1 + tagMap[i].val.n]
          ELSE [num |-> FALSE, n |-> 0]
  ELSE IF tag \in ObjectPrototypeKeys
       THEN [num |-> FALSE, n |-> 0]
       ELSE [num |-> TRUE, n |-> 1]

\* A count list that takes a new entry for every occurrence of a tag.
PutCountAppend(tagMap, tag, count) == Append(tagMap, [key |-> tag, val |-> count])

\* { ...tagMap, [tag]: count }: an own key keeps its place, a new one is last.
PutCount(tagMap, tag, count) ==
  IF \E i \in 1..Len(tagMap) : tagMap[i].key = tag
  THEN [i \in 1..Len(tagMap) |->
          IF tagMap[i].key = tag THEN [key |-> tag, val |-> count] ELSE tagMap[i]]
  ELSE Append(tagMap, [key |-> tag, val |-> count])

RECURSIVE CountTags(_, _, _)
\* .reduce((tagMap, tag) => ..., {}) from element i on.
CountTags(flat, i, tagMap) ==
  IF i > Len(flat) THEN tagMap
  ELSE CountTags(flat, i + 1, PutCount(tagMap, flat[i], NextCount(tagMap, flat[i])))

\* count[t] of an own key, as a number (NaN for a string that is no number).
CountOf(tagMap, t) ==
  LET i == CHOOSE j \in 1..Len(tagMap) : tagMap[j].key = t
  IN IF tagMap[i].val.num THEN Number(tagMap[i].val.n) ELSE NaN

\* Where a tag of the model stands in the collation order.
TagRank(t) ==
  CASE t = "a" -> 1
    [] t = "b" -> 2
    [] t = "c" -> 3
    [] t = "constructor" -> 4
    [] t = "undefined" -> 5
    [] t = "x" -> 6

\* t1.localeCompare(t2)
LocaleCompare(t1, t2) ==
  IF TagRank(t1) < TagRank(t2) THEN Number(0 - 1)
  ELSE IF TagRank(t1) > TagRank(t2) THEN Number(1)
  ELSE Number(0)

\* (t1, t2) => count[t2] - count[t1] || t1.localeCompare(t2)
ByCountThenName(tagMap, t1, t2) ==
  LET diff == Minus(CountOf(tagMap, t2), CountOf(tagMap, t1))
  IN IF diff.nan \/ diff.v = 0 THEN LocaleCompare(t1, t2) ELSE diff

\* tags(posts) of the home page
Tags(posts) ==
  LET count == CountTags(FlatTags(posts, 1), 1, <<>>)
      keys == OwnKeys(count)
  IN ArraySort(keys, [p \in Elements(keys) \X Elements(keys)
                        |-> ByCountThenName(count, p[1], p[2])])

\* ------------------------------------------------------------ metadata

\* What a post's front matter declares.
FrontMatter(title, published, date, updated, tags, description, slug) ==
  [defined |-> TRUE,
   fields |-> [title |-> Str(title), date |-> date, updated |-> updated,
               description |-> description, published |-> published,
               tags |-> tags, slug |-> slug]]

\* A source file with no front matter: its module exports no metadata.
NoMetadata ==
  [defined |-> FALSE,
   fields |-> [title |-> Undef, date |-> Undef, updated |-> Undef,
               description |-> Undef, published |-> Undef,
               tags |-> TagsUndef, slug |-> SlugUndef]]

\* --------------------------------------------------------------- routes

\* What a route answered: status "ok" with the fields the route fills in, or
\* "error" with the exception the handler threw.  input is the posts array
\* the handler fetched as it stands when the handler returns; meta and
\* content are what the single-post page is given.
NoResponse ==
  [route |-> "none", status |-> "none", error |-> "", posts |-> <<>>,
   tags |-> <<>>, tag |-> "", updated |-> Undef, entries |-> <<>>, urls |-> <<>>,
   input |-> <<>>, slug |-> <<>>, meta |-> NoMetadata, content |-> <<>>]

\* The posts array after posts.splice(0, 2) took its first two elements out.
SplicedInput(posts) == SubSeq(posts, 3, Len(posts))

\* The posts array after filter, slice, flatMap, reduce or map was called on
\* it: each reads the array and builds its result anew.  (The one method of
\* the handlers that writes, sort, is called on an array the handler has
\* just built: the reduce result of the index, the Object.keys of the tag
\* counts.)
KeptInput(posts) == posts

Ok(route) == [NoResponse EXCEPT !.route = route, !.status = "ok"]

Threw(route, error) ==
  [NoResponse EXCEPT !.route = route, !.status = "error", !.error = error]

\* `${v}` of a string or of undefined
TemplateString(v) == IF v.t = "undefined" THEN Str("undefined") ELSE v

\* `https://unicolas.github.io${base}`
SiteUrl == <<"https://unicolas.github.io", "${base}">>

\* `https://unicolas.github.io${base}/blog`
BlogIndexUrl == SiteUrl \o <<"/blog">>

\* `https://unicolas.github.io${base}/blog/${post.title}`
BlogUrlFromTitle(post) == SiteUrl \o <<"/blog/">> \o <<post.title.s>>

\* `https://unicolas.github.io${base}/blog/${post.slug}`
BlogUrl(post) == SiteUrl \o <<"/blog/">> \o post.slug.chars

\* GET of /api/posts
ApiPostsGET(ps) ==
  LET listed == ListPublishedPosts(ps)
  IN IF listed.threw THEN Threw("api/posts", "TypeError")
     ELSE [Ok("api/posts") EXCEPT !.posts = listed.posts]

\* load of /blog that returns posts.slice(0, 2)
BlogLoadRecent(ps) ==
  LET fetched == FetchPosts(ps)
  IN IF fetched.threw THEN Threw("blog", "TypeError")
     ELSE [Ok("blog") EXCEPT
             !.posts = SubSeq(fetched.posts, 1,
                              IF Len(fetched.posts) < 2 THEN Len(fetched.posts) ELSE 2)]

\* load of /blog
BlogLoad(ps) ==
  LET fetched == FetchPosts(ps)
  IN IF fetched.threw THEN Threw("blog", "TypeError")
     ELSE [Ok("blog") EXCEPT !.posts = fetched.posts]

\* t.toLowerCase() on the tags of the model
LowerCase(t) == IF t = "A" THEN "a" ELSE t

\* post.tags.includes(tag) with both sides lower-cased.
TagsIncludeAnyCase(post, tag) ==
  IF post.tags.t = "array"
  THEN [threw |-> FALSE,
        val |-> \E k \in 1..Len(post.tags.items) :
                  LowerCase(post.tags.items[k]) = LowerCase(tag)]
  ELSE [threw |-> TRUE, val |-> FALSE]

\* post.tags.includes(tag): a TypeError when the post has no tags.
TagsInclude(post, tag) ==
  IF post.tags.t = "array"
  THEN [threw |-> FALSE,
        val |-> \E k \in 1..Len(post.tags.items) : post.tags.items[k] = tag]
  ELSE [threw |-> TRUE, val |-> FALSE]

\* load of /blog/tags/[tag] that returns the filtered posts oldest first.
TagLoadOldestFirst(ps, tag) ==
  LET fetched == FetchPosts(ps)
  IN IF fetched.threw THEN Threw("blog/tags", "TypeError")
     ELSE IF \E i \in 1..Len(fetched.posts) : TagsInclude(fetched.posts[i], tag).threw
     THEN Threw("blog/tags", "TypeError")
     ELSE [Ok("blog/tags") EXCEPT
             !.posts = Reverse(SelectSeq(fetched.posts,
                                         LAMBDA post : TagsInclude(post, tag).val)),
             !.tag = tag,
             !.input = KeptInput(fetched.posts)]

\* load of /blog/tags/[tag]
TagLoad(ps, tag) ==
  LET fetched == FetchPosts(ps)
  IN IF fetched.threw THEN Threw("blog/tags", "TypeError")
     ELSE IF \E i \in 1..Len(fetched.posts) : TagsInclude(fetched.posts[i], tag).threw
     THEN Threw("blog/tags", "TypeError")
     ELSE [Ok("blog/tags") EXCEPT
             !.posts = SelectSeq(fetched.posts, LAMBDA post : TagsInclude(post, tag).val),
             !.tag = tag,
             !.input = KeptInput(fetched.posts)]

\* load of the home page with the tags of the posts it shows: tags(posts.slice(0, 2))
HomeLoadShownTags(ps) ==
  LET fetched == FetchPosts(ps)
      shown == SubSeq(fetched.posts, 1,
                      IF Len(fetched.posts) < 2 THEN Len(fetched.posts) ELSE 2)
  IN IF fetched.threw THEN Threw("home", "TypeError")
     ELSE [Ok("home") EXCEPT
             !.posts = shown, !.tags = Tags(shown), !.input = KeptInput(fetched.posts)]

\* load of the home page
HomeLoad(ps) ==
  LET fetched == FetchPosts(ps)
  IN IF fetched.threw THEN Threw("home", "TypeError")
     ELSE [Ok("home") EXCEPT
             !.posts = SubSeq(fetched.posts, 1,
                              IF Len(fetched.posts) < 2 THEN Len(fetched.posts) ELSE 2),
             !.tags = Tags(fetched.posts),
             !.input = KeptInput(fetched.posts)]

\* new Date(post.date).toISOString(), without `post.updated ??`.
PostUpdatedDateOnly(post) == ToISOString(post.date)

\* The date a feed entry or a sitemap url shows for a post.
PostUpdated(post) == ToISOString(Coalesce(post.updated, post.date))

\* GET of /feed.atom
FeedGET(ps) ==
  LET fetched == FetchPosts(ps)
      updated == LastUpdated(fetched.posts)
  IN IF fetched.threw \/ updated.threw THEN Threw("feed.atom", "TypeError")
     ELSE IF ToISOString(updated.val).threw
               \/ \E i \in 1..Len(fetched.posts) : PostUpdated(fetched.posts[i]).threw
     THEN Threw("feed.atom", "RangeError")
     ELSE [Ok("feed.atom") EXCEPT
             !.updated = ToISOString(updated.val).val,
             !.entries = [i \in 1..Len(fetched.posts) |->
                            [title |-> TemplateString(fetched.posts[i].title),
                             id |-> BlogUrl(fetched.posts[i]),
                             link |-> BlogUrl(fetched.posts[i]),
                             updated |-> PostUpdated(fetched.posts[i]).val]],
             !.input = KeptInput(fetched.posts)]

\* GET of /sitemap.xml
SitemapGET(ps) ==
  LET fetched == FetchPosts(ps)
      updated == LastUpdated(fetched.posts)
  IN IF fetched.threw \/ updated.threw THEN Threw("sitemap.xml", "TypeError")
     ELSE IF \E i \in 1..Len(fetched.posts) : PostUpdated(fetched.posts[i]).threw
     THEN Threw("sitemap.xml", "RangeError")
     ELSE [Ok("sitemap.xml") EXCEPT
             !.updated = TemplateString(updated.val),
             !.urls = <<[loc |-> SiteUrl, lastmod |-> TemplateString(updated.val)],
                        [loc |-> BlogIndexUrl, lastmod |-> TemplateString(updated.val)]>>
                      \o [i \in 1..Len(fetched.posts) |->
                            [loc |-> BlogUrl(fetched.posts[i]),
                             lastmod |-> PostUpdated(fetched.posts[i]).val]],
             !.input = KeptInput(fetched.posts)]

\* `../../../lib/posts/${params.slug}.md`, as the path of the source file
PostPath(slug) == PostsDir \o slug \o DotMd

\* load of /blog/[slug] that looks the slug up in the post index.
PostLoadPublished(ps, slug) ==
  LET posts == ListPublishedPosts(ps).posts
      found == {f \in Elements(ps) :
                  /\ f.path = PostPath(slug)
                  /\ \E k \in 1..Len(posts) : posts[k].slug = SlugStr(slug)}
  IN IF found = {} THEN [Threw("blog/[slug]", "404") EXCEPT !.slug = slug]
     ELSE LET file == CHOOSE f \in found : TRUE
          IN [Ok("blog/[slug]") EXCEPT
                !.slug = slug, !.meta = file.metadata, !.content = file.path]

\* load of /blog/[slug]: the dynamic import of the slug's source file gives
\* its component and its metadata; when the import fails the catch answers
\* error(404).
PostLoad(ps, slug) ==
  LET found == {f \in Elements(ps) : f.path = PostPath(slug)}
  IN IF found = {} THEN [Threw("blog/[slug]", "404") EXCEPT !.slug = slug]
     ELSE LET file == CHOOSE f \in found : TRUE
          IN [Ok("blog/[slug]") EXCEPT
                !.slug = slug, !.meta = file.metadata, !.content = file.path]

\* --------------------------------------------------- the source collection

Date1 == Str("2023-10-13")

Date2 == Str("2023-11-23")

Date3 == Str("2024-06-22")

\* The front matters the files of the model are written with: posts like the
\* repository's (the third with an unquoted date, which the front-matter
\* parser reads as a Date), a draft, and posts with one flaw each.
FrontMatters ==
  { FrontMatter("first", Bool(TRUE), Date1, Undef, TagsArr(<<"a">>), Undef, SlugUndef),
    FrontMatter("second", Bool(TRUE), Date2, Undef, TagsArr(<<"b", "a">>), Undef, SlugUndef),
    FrontMatter("third", Bool(TRUE), DateObj(19896), Undef, TagsArr(<<"a", "a", "b">>),
                Undef, SlugUndef),
    FrontMatter("revised", Bool(TRUE), Date1, Date3, TagsArr(<<"c">>), Str("summary"),
                SlugStr(<<"c", "u", "s", "t", "o", "m">>)),
    FrontMatter("backdated", Bool(TRUE), Date2, Date1,
                TagsArr(<<"constructor", "constructor">>), Undef, SlugUndef),
    FrontMatter("draft", Bool(FALSE), Date3, Undef, TagsArr(<<"x">>), Undef, SlugUndef),
    FrontMatter("no flag", Undef, Date2, Undef, TagsArr(<<"a">>), Undef, SlugUndef),
    FrontMatter("quoted flag", Str("no"), Date2, Undef, TagsArr(<<"a">>), Undef, SlugUndef),
    FrontMatter("bad date", Bool(TRUE), Str("TBD"), Undef, TagsArr(<<"a">>), Undef,
                SlugUndef),
    FrontMatter("no tags", Bool(TRUE), Date2, Undef, TagsUndef, Undef, SlugUndef),
    NoMetadata }

Digits == <<"1", "2", "3", "4", "5", "6", "7", "8", "9">>

\* The i-th file of a collection that varies the front matter: 'p<i>.md'.
PlainPath(i) == PostsDir \o <<"p", Digits[i]>> \o DotMd

\* The collection of the files 'p1.md', 'p2.md', ... written with the front
\* matters fm[1], fm[2], ...
FrontMatterCollection(fm) ==
  [i \in 1..Len(fm) |-> [path |-> PlainPath(i), metadata |-> fm[i]]]

\* What file names are put together from.
Pieces == {<<"a">>, DotMd}

RECURSIVE Concat(_)
Concat(pieces) ==
  IF pieces = <<>> THEN <<>> ELSE Head(pieces) \o Concat(Tail(pieces))

\* File names matching '*.md': at most MaxPieces pieces, then the extension.
FileNames ==
  UNION {{Concat(q) \o DotMd : q \in [1..n -> Pieces]} : n \in 0..MaxPieces}

\* A published post under the given file name.
NamedFile(name) ==
  [path |-> PostsDir \o name,
   metadata |-> FrontMatter("named", Bool(TRUE), Date1, Undef, TagsArr(<<"a">>),
                            Undef, SlugUndef)]

\* Collections of one or two published posts under different file names.
NameCollections ==
  {<<NamedFile(f)>> : f \in FileNames}
    \cup {<<NamedFile(pair[1]), NamedFile(pair[2])>> :
            pair \in {q \in FileNames \X FileNames : q[1] # q[2]}}

\* The tag of a /blog/tags/[tag] request.
TagParams == {"a", "A", "b", "x"}

\* The slug of a /blog/[slug] request.
SlugParams == {<<"p", "1">>, <<"a">>}

\* The front matter of the model with the given title.
FrontMatterTitled(title) ==
  CHOOSE fm \in FrontMatters : fm.fields.title = Str(title)

\* The front matters of a posts directory that is edited between builds: a
\* post, a post with an `updated` and a slug of its own, a draft.
EditedFrontMatters ==
  <<FrontMatterTitled("first"), FrontMatterTitled("revised"), FrontMatterTitled("draft")>>

\* The collection whose file 'p<i>.md' has the front matter numbered has[i],
\* and is not there when has[i] = 0; the keys of the glob come in path order.
CollectionOf(has) ==
  LET present == SelectSeq([i \in 1..MaxEditedFiles |-> i], LAMBDA i : has[i] # 0)
  IN [k \in 1..Len(present) |->
        [path |-> PlainPath(present[k]), metadata |-> EditedFrontMatters[has[present[k]]]]]

\* The states of a posts directory of at most MaxEditedFiles files.
EditedCollections ==
  {CollectionOf(has) : has \in [1..MaxEditedFiles -> 0..Len(EditedFrontMatters)]}

\* The files of the collection at the path 'p<i>.md': one or none.
FilesAt(ps, i) == {f \in Elements(ps) : f.path = PlainPath(i)}

\* No index has been written out yet.
NotBuilt == [any |-> FALSE, paths |-> <<>>, posts |-> <<>>]

\* -------------------------------------------------------- state machine

\* The build renders one route at a time: `response` is NoResponse until a
\* route has answered, and again once the answer has been written out.

\* At most MaxFiles files with any front matter in each, or one or two
\* published posts under any file names.
Init ==
  /\ \/ \E n \in 0..MaxFiles : \E fm \in [1..n -> FrontMatters] :
          paths = FrontMatterCollection(fm)
     \/ paths \in NameCollections
  /\ response = NoResponse
  /\ built = NotBuilt

GetPosts ==
  /\ response = NoResponse
  /\ response' = ApiPostsGET(paths)
  /\ UNCHANGED <<paths, built>>

LoadBlog ==
  /\ response = NoResponse
  /\ response' = BlogLoad(paths)
  /\ UNCHANGED <<paths, built>>

LoadTag ==
  /\ response = NoResponse
  /\ \E tag \in TagParams : response' = TagLoad(paths, tag)
  /\ UNCHANGED <<paths, built>>

LoadHome ==
  /\ response = NoResponse
  /\ response' = HomeLoad(paths)
  /\ UNCHANGED <<paths, built>>

GetFeed ==
  /\ response = NoResponse
  /\ response' = FeedGET(paths)
  /\ UNCHANGED <<paths, built>>

GetSitemap ==
  /\ response = NoResponse
  /\ response' = SitemapGET(paths)
  /\ UNCHANGED <<paths, built>>

LoadPost ==
  /\ response = NoResponse
  /\ \E slug \in SlugParams : response' = PostLoad(paths, slug)
  /\ UNCHANGED <<paths, built>>

\* The answer is written out; the next route can be rendered.
Written ==
  /\ response # NoResponse
  /\ response' = NoResponse
  /\ UNCHANGED <<paths, built>>

Next ==
  \/ GetPosts
  \/ LoadBlog
  \/ LoadTag
  \/ LoadHome
  \/ GetFeed
  \/ GetSitemap
  \/ LoadPost
  \/ Written

Spec == Init /\ [][Next]_vars

\* The index that answered is written out and kept: it is what the build
\* before produced when the site is built again.
IndexKept ==
  /\ response.route = "api/posts" /\ response.status = "ok"
  /\ built' = [any |-> TRUE, paths |-> paths, posts |-> response.posts]
  /\ response' = NoResponse
  /\ UNCHANGED paths

\* Between builds one source file is added, removed or changed.
EditSources ==
  /\ response = NoResponse
  /\ \E ps \in EditedCollections :
       /\ Cardinality({i \in 1..MaxEditedFiles : FilesAt(ps, i) # FilesAt(paths, i)}) = 1
       /\ paths' = ps
  /\ UNCHANGED <<response, built>>

RebuildInit ==
  /\ paths \in EditedCollections
  /\ response = NoResponse
  /\ built = NotBuilt

RebuildNext ==
  \/ Next
  \/ IndexKept
  \/ EditSources

\* The site is built again and again while the posts directory is edited.
RebuildSpec == RebuildInit /\ [][RebuildNext]_vars

\* How many files a collection of dated posts has.
ManyFiles == 7

\* Published posts of three different dates, and one whose date does not parse.
DatedFrontMatters ==
  { FrontMatter("first", Bool(TRUE), Date1, Undef, TagsArr(<<"a">>), Undef, SlugUndef),
    FrontMatter("second", Bool(TRUE), Date2, Undef, TagsArr(<<"b", "a">>), Undef, SlugUndef),
    FrontMatter("third", Bool(TRUE), DateObj(19896), Undef, TagsArr(<<"a", "a", "b">>),
                Undef, SlugUndef),
    FrontMatter("bad date", Bool(TRUE), Str("TBD"), Undef, TagsArr(<<"a">>), Undef,
                SlugUndef) }

ManyInit ==
  /\ \E fm \in [1..ManyFiles -> DatedFrontMatters] : paths = FrontMatterCollection(fm)
  /\ response = NoResponse
  /\ built = NotBuilt

ManyNext ==
  \/ GetPosts
  \/ Written

\* The index is asked for over a posts directory of ManyFiles published posts.
ManySpec == ManyInit /\ [][ManyNext]_vars

\* --------------------------------------------------------------- claims

\* The Post a source file gives when it is included.
PostOf(file) == MergeSlug(file.metadata.fields, SlugOf(file.path))

\* The file has metadata whose `published` is the boolean true.
PublishedTrue(file) ==
  file.metadata.defined /\ file.metadata.fields.published = Bool(TRUE)

\* The post index has answered.
IndexAnswered == response.route = "api/posts" /\ response.status = "ok"

\* How often x occurs in the sequence a.
Occurrences(a, x) == Cardinality({i \in 1..Len(a) : a[i] = x})

\* d1 is a date no earlier than the date d2.
NotEarlier(d1, d2) ==
  ~GetTime(d1).nan /\ ~GetTime(d2).nan /\ GetTime(d1).v >= GetTime(d2).v

\* C1: the post index holds no Post that comes from a source file whose
\* metadata is absent or whose `published` is anything but the boolean true.
C1_OnlyPublishedTrue ==
  IndexAnswered =>
    \A i \in 1..Len(paths) :
      ~PublishedTrue(paths[i]) => Occurrences(response.posts, PostOf(paths[i])) = 0

\* C2: the post index is ordered newest first by date: no post stands before
\* a post with a later date.  (Every adjacent pair being ordered implies it;
\* a post whose date does not parse is compared with nothing here.)
C2_NewestFirst ==
  IndexAnswered =>
    \A k, l \in 1..Len(response.posts) :
      (k < l /\ ~GetTime(response.posts[k].date).nan
             /\ ~GetTime(response.posts[l].date).nan) =>
        NotEarlier(response.posts[k].date, response.posts[l].date)

\* The Posts of the source files whose `published` is true, in file order (a
\* file named exactly '.md', which derives no slug, is left aside).
PublishedPosts ==
  LET kept == SelectSeq(paths, LAMBDA f : PublishedTrue(f) /\ SlugOf(f.path) # <<>>)
  IN [i \in 1..Len(kept) |-> PostOf(kept[i])]

\* C3: the post index is a permutation of the source records whose metadata
\* has published = true: each of them once, and nothing else.
C3_PermutationOfPublished ==
  IndexAnswered =>
    \A post \in Elements(response.posts) \cup Elements(PublishedPosts) :
      Occurrences(response.posts, post) = Occurrences(PublishedPosts, post)

\* The last path segment with its file extension (from the last dot on) removed.
StemOf(path) ==
  LET segments == Split(path)
      name == segments[Len(segments)]
      dots == {i \in 1..Len(name) : name[i] = "."}
  IN IF dots = {} THEN name
     ELSE SubSeq(name, 1, (CHOOSE i \in dots : \A j \in dots : j <= i) - 1)

\* The file's name starts with a dot (a glob matches such names only when told to).
DotFile(file) == Split(file.path)[Len(Split(file.path))][1] = "."

\* C4: the slug of every Post of the index is the last segment of its source
\* path with the file extension stripped and nothing else changed (stated
\* for the files whose name does not start with a dot).
C4_SlugIsStem ==
  IndexAnswered =>
    \A i \in 1..Len(paths) :
      (PublishedTrue(paths[i]) /\ ~DotFile(paths[i])) =>
        \E k \in 1..Len(response.posts) :
          response.posts[k].slug = SlugStr(StemOf(paths[i].path))

\* C5: the slugs of the post index are pairwise different, the source paths
\* being pairwise different and ending in '.md' (stated for collections in
\* which no file name starts with a dot).
C5_SlugsDistinct ==
  (IndexAnswered /\ \A i \in 1..Len(paths) : ~DotFile(paths[i])) =>
    \A k, l \in 1..Len(response.posts) :
      k # l => response.posts[k].slug # response.posts[l].slug

\* The post carries the fields of the file's metadata, and the slug of its path.
CarriesMetadataOf(post, file) ==
  /\ file.metadata.defined
  /\ post.title = file.metadata.fields.title
  /\ post.date = file.metadata.fields.date
  /\ post.updated = file.metadata.fields.updated
  /\ post.description = file.metadata.fields.description
  /\ post.published = file.metadata.fields.published
  /\ post.tags = file.metadata.fields.tags
  /\ post.slug = SlugStr(SlugOf(file.path))

\* C6: each Post of the index carries every field of its source metadata
\* unchanged (tags in authored order, duplicates kept), and the slug derived
\* from the path even when the metadata declares a slug of its own.
C6_FieldsCarriedSlugDerived ==
  IndexAnswered =>
    /\ \A k \in 1..Len(response.posts) :
         \E i \in 1..Len(paths) : CarriesMetadataOf(response.posts[k], paths[i])
    /\ \A i \in 1..Len(paths) :
         (PublishedTrue(paths[i]) /\ SlugOf(paths[i].path) # <<>>) =>
           \E k \in 1..Len(response.posts) :
             CarriesMetadataOf(response.posts[k], paths[i])

\* The index holds a post whose metadata declares another slug than its
\* path's, and a post with a tag written twice.
C6_Witness ==
  /\ IndexAnswered
  /\ \E i \in 1..Len(paths) :
       /\ PublishedTrue(paths[i])
       /\ paths[i].metadata.fields.slug.t = "string"
       /\ paths[i].metadata.fields.slug # SlugStr(SlugOf(paths[i].path))
  /\ \E k \in 1..Len(response.posts) :
       response.posts[k].tags = TagsArr(<<"a", "a", "b">>)

\* The file is one the index skips for its metadata: none, or a `published`
\* that is missing or falsy.
Skipped(file) ==
  ~file.metadata.defined \/ ~Truthy(file.metadata.fields.published)

\* C7: the post index raises no error; a record with no metadata, or with a
\* missing or falsy `published`, is left out, and the index is what it would
\* be without those records.
C7_SkipsSilently ==
  response.route = "api/posts" =>
    /\ response.status = "ok"
    /\ \A i \in 1..Len(paths) :
         Skipped(paths[i]) => Occurrences(response.posts, PostOf(paths[i])) = 0
    /\ response.posts =
         ListPublishedPosts(SelectSeq(paths, LAMBDA f : ~Skipped(f))).posts

\* The index answered for a collection with a file without metadata, a file
\* with a falsy `published`, and a post that is returned.
C7_Witness ==
  /\ IndexAnswered
  /\ \E i \in 1..Len(paths) : ~paths[i].metadata.defined
  /\ \E i \in 1..Len(paths) :
       paths[i].metadata.defined /\ ~Truthy(paths[i].metadata.fields.published)
  /\ response.posts # <<>>

\* A published record with malformed metadata: no tags, or a date that is
\* missing or cannot be parsed.
Malformed(file) ==
  /\ PublishedTrue(file)
  /\ \/ file.metadata.fields.tags.t = "undefined"
     \/ GetTime(file.metadata.fields.date).nan

\* C8: with one malformed published record in the collection every route
\* (index, home page with the tag ranking, tag listing, feed, sitemap) still
\* answers without an error.
C8_MalformedNeverBreaks ==
  (Cardinality({i \in 1..Len(paths) : Malformed(paths[i])}) = 1
     /\ response.route # "none") =>
    response.status = "ok"

\* The slugs of the files whose `published` is false.
DraftSlugs ==
  {SlugOf(paths[i].path) : i \in {j \in 1..Len(paths) :
     paths[j].metadata.defined /\ paths[j].metadata.fields.published = Bool(FALSE)}}

\* C9: a post with published = false is in no view: not among the posts of the
\* index, the blog listing, the home page or any tag listing, not among the
\* entries of the feed and not among the urls of the sitemap.
C9_DraftsInNoView ==
  /\ \A k \in 1..Len(response.posts) : response.posts[k].slug.chars \notin DraftSlugs
  /\ \A k \in 1..Len(response.entries) :
       \A slug \in DraftSlugs :
         /\ response.entries[k].id # SiteUrl \o <<"/blog/">> \o slug
         /\ response.entries[k].link # SiteUrl \o <<"/blog/">> \o slug
  /\ \A k \in 1..Len(response.urls) :
       \A slug \in DraftSlugs : response.urls[k].loc # SiteUrl \o <<"/blog/">> \o slug

\* A feed with entries, or a tag listing for the draft's own tag, was answered
\* for a collection that holds a draft.
C9_Witness ==
  /\ DraftSlugs # {}
  /\ \/ response.route = "feed.atom" /\ response.entries # <<>>
     \/ response.route = "sitemap.xml" /\ Len(response.urls) > 2
     \/ response.route = "blog/tags" /\ response.status = "ok" /\ response.tag = "x"

\* How often a tag occurs in the tags of all posts of the index.
TagCount(tag) ==
  LET posts == FetchPosts(paths).posts
      RECURSIVE Sum(_)
      Sum(i) == IF i > Len(posts) THEN 0
                ELSE Occurrences(posts[i].tags.items, tag) + Sum(i + 1)
  IN Sum(1)

\* C10: the tag ranking of the home page is ordered by descending occurrence
\* count, tags of equal count by ascending tag string.
C10_RankedByCountThenName ==
  (response.route = "home" /\ response.status = "ok"
     /\ \A i \in 1..Len(FetchPosts(paths).posts) :
          FetchPosts(paths).posts[i].tags.t = "array") =>
    \A k, l \in 1..Len(response.tags) :
      k < l =>
        \/ TagCount(response.tags[k]) > TagCount(response.tags[l])
        \/ /\ TagCount(response.tags[k]) = TagCount(response.tags[l])
           /\ TagRank(response.tags[k]) < TagRank(response.tags[l])

\* The posts a route receives from the index.
Fetched == FetchPosts(paths).posts

\* Every post the routes receive has a tags array.
AllTagged == \A i \in 1..Len(Fetched) : Fetched[i].tags.t = "array"

\* The tags that occur in some post the routes receive.
TagsInUse ==
  UNION {Elements(Fetched[i].tags.items) : i \in 1..Len(Fetched)}

\* C11: the tag ranking holds each tag that occurs in some post exactly once
\* and no other string; without posts it is empty (stated for posts that
\* each have a tags array).
C11_EachTagOnce ==
  (response.route = "home" /\ response.status = "ok" /\ AllTagged) =>
    /\ \A k, l \in 1..Len(response.tags) : k # l => response.tags[k] # response.tags[l]
    /\ Elements(response.tags) = TagsInUse
    /\ Fetched = <<>> => response.tags = <<>>

\* The home page answered for posts that share a tag, one of them writing a
\* tag twice, and that use a name every object inherits as a tag.
C11_Witness ==
  /\ response.route = "home" /\ response.status = "ok" /\ AllTagged
  /\ \E i, j \in 1..Len(Fetched) :
       /\ i # j
       /\ Elements(Fetched[i].tags.items) \cap Elements(Fetched[j].tags.items) # {}
  /\ \E i \in 1..Len(Fetched) : Occurrences(Fetched[i].tags.items, "a") > 1
  /\ "constructor" \in TagsInUse

\* The post has the tag among its tags, letter for letter.
HasTag(post, tag) == Occurrences(post.tags.items, tag) > 0

\* C12: the tag listing holds exactly the posts whose tags contain the
\* requested tag letter for letter (case matters), in the order of the
\* index; it is empty when no post has the tag.
C12_ExactlyTheTagged ==
  (response.route = "blog/tags" /\ response.status = "ok") =>
    /\ response.posts = SelectSeq(Fetched, LAMBDA post : HasTag(post, response.tag))
    /\ (\A i \in 1..Len(Fetched) : ~HasTag(Fetched[i], response.tag)) =>
         response.posts = <<>>

\* A tag listing that keeps two posts and leaves out a post standing between them.
C12_Witness ==
  /\ response.route = "blog/tags" /\ response.status = "ok"
  /\ Len(response.posts) = 2
  /\ Len(Fetched) = 3
  /\ ~HasTag(Fetched[2], response.tag)

\* The post index of the collection, as the handler builds it.
IndexPosts == ListPublishedPosts(paths).posts

\* A post's effective timestamp: `updated` when present, `date` otherwise.
Effective(post) == IF post.updated.t # "undefined" THEN post.updated ELSE post.date

\* The instant v denotes is the latest of the posts' effective timestamps.
LatestEffective(v, posts) ==
  /\ ~GetTime(v).nan
  /\ \A i \in 1..Len(posts) : NotEarlier(v, Effective(posts[i]))
  /\ \E i \in 1..Len(posts) : GetTime(v) = GetTime(Effective(posts[i]))

\* The feed or the sitemap was asked for.
SummaryAsked == response.route \in {"feed.atom", "sitemap.xml"}

\* C13: for a non-empty sequence of posts lastUpdated returns the maximum of
\* the posts' effective timestamps (read off the sitemap, whose top-level
\* lastmod is the value lastUpdated returned).
C13_MaxEffective ==
  (response.route = "sitemap.xml" /\ response.status = "ok") =>
    LatestEffective(response.updated, IndexPosts)

\* C14 as stated: lastUpdated of an empty sequence fails with an
\* EmptyInputError, so the feed and the sitemap of an empty index end with it.
C14_EmptyInputError ==
  (SummaryAsked /\ IndexPosts = <<>>) =>
    response.status = "error" /\ response.error = "EmptyInputError"

\* C14, amended: lastUpdated of an empty sequence throws a TypeError (reading
\* `date` of the first element, which is not there) and returns no value, so
\* the feed and the sitemap of an empty index end with a TypeError.
C14_EmptyThrowsTypeError ==
  /\ LastUpdated(<<>>).threw
  /\ (SummaryAsked /\ IndexPosts = <<>>) =>
       response.status = "error" /\ response.error = "TypeError"

\* The feed or the sitemap was asked for with no published post among the
\* source files.
C14_Witness ==
  /\ SummaryAsked
  /\ IndexPosts = <<>>
  /\ response.error = "TypeError"

\* C15: with no published post the feed and the sitemap each end with an
\* error and nothing of a document: no feed-level or top-level timestamp, no
\* entry and no url.
C15_EmptyIndexAborts ==
  (SummaryAsked /\ IndexPosts = <<>>) =>
    /\ response.status = "error"
    /\ response.updated = Undef
    /\ response.entries = <<>>
    /\ response.urls = <<>>

\* The sitemap was asked for when the source files are all drafts or without
\* metadata.
C15_Witness ==
  /\ response.route = "sitemap.xml"
  /\ response.status = "error"
  /\ paths # <<>>
  /\ IndexPosts = <<>>

\* The canonical URL of a post: the site's blog address and the post's slug.
CanonicalUrl(post) == SiteUrl \o <<"/blog/">> \o post.slug.chars

\* The timestamp v denotes the instant of the post's effective timestamp.
ShowsEffective(v, post) ==
  ~GetTime(v).nan /\ GetTime(v) = GetTime(Effective(post))

\* C16: the feed has one entry per post of the index, in index order; an
\* entry's id and link are the canonical URL of its post's slug, and its
\* updated value is the post's `updated` when present and its `date` otherwise.
C16_EntryPerPost ==
  (response.route = "feed.atom" /\ response.status = "ok") =>
    /\ Len(response.entries) = Len(IndexPosts)
    /\ \A i \in 1..Len(IndexPosts) :
         /\ response.entries[i].id = CanonicalUrl(IndexPosts[i])
         /\ response.entries[i].link = CanonicalUrl(IndexPosts[i])
         /\ ShowsEffective(response.entries[i].updated, IndexPosts[i])

\* A feed of three entries: for a post with an `updated`, for a post without
\* one, and for a post whose date the front-matter parser read as a Date.
C16_Witness ==
  /\ response.route = "feed.atom" /\ response.status = "ok"
  /\ Len(response.entries) = 3
  /\ \E i \in 1..Len(IndexPosts) : IndexPosts[i].updated.t = "string"
  /\ \E i \in 1..Len(IndexPosts) : IndexPosts[i].updated.t = "undefined"
  /\ \E i \in 1..Len(IndexPosts) : IndexPosts[i].date.t = "Date"

\* C17: the feed-level updated value and the lastmod of the sitemap's two
\* top-level urls denote one instant, the one lastUpdated returns for the
\* post index, and no entry's updated and no post url's lastmod is later.
C17_OneLatestInstant ==
  LET feed == FeedGET(paths)
      sitemap == SitemapGET(paths)
      latest == GetTime(LastUpdated(IndexPosts).val)
  IN (SummaryAsked /\ response.status = "ok") =>
       /\ response \in {feed, sitemap}
       /\ feed.status = "ok" /\ sitemap.status = "ok"
       /\ ~latest.nan
       /\ GetTime(feed.updated) = latest
       /\ GetTime(sitemap.urls[1].lastmod) = latest
       /\ GetTime(sitemap.urls[2].lastmod) = latest
       /\ \A k \in 1..Len(feed.entries) :
            NotEarlier(feed.updated, feed.entries[k].updated)
       /\ \A k \in 3..Len(sitemap.urls) :
            NotEarlier(sitemap.urls[1].lastmod, sitemap.urls[k].lastmod)

\* The feed or the sitemap answered for posts of which the latest is one that
\* was updated after it was published, and another one is older.
C17_Witness ==
  /\ SummaryAsked /\ response.status = "ok"
  /\ \E i, j \in 1..Len(IndexPosts) :
       /\ IndexPosts[i].updated.t = "string"
       /\ GetTime(IndexPosts[i].updated).v > GetTime(IndexPosts[i].date).v
       /\ GetTime(response.updated) = GetTime(IndexPosts[i].updated)
       /\ GetTime(Effective(IndexPosts[j])).v < GetTime(response.updated).v

\* C18: for an index of n >= 1 posts the sitemap has n + 2 urls: the home
\* page, the blog index, then one url per post in index order, built from the
\* post's slug, with a lastmod that is the post's `updated` when present and
\* its `date` otherwise.
C18_UrlPerPostPlusTwo ==
  (response.route = "sitemap.xml" /\ response.status = "ok") =>
    /\ Len(IndexPosts) >= 1
    /\ Len(response.urls) = Len(IndexPosts) + 2
    /\ response.urls[1].loc = SiteUrl
    /\ response.urls[2].loc = SiteUrl \o <<"/blog">>
    /\ \A i \in 1..Len(IndexPosts) :
         /\ response.urls[i + 2].loc = CanonicalUrl(IndexPosts[i])
         /\ ShowsEffective(response.urls[i + 2].lastmod, IndexPosts[i])

\* A sitemap of four urls, one of them for a post with an `updated`.
C18_Witness ==
  /\ response.route = "sitemap.xml" /\ response.status = "ok"
  /\ Len(response.urls) = 4
  /\ \E i \in 1..Len(IndexPosts) : IndexPosts[i].updated.t = "string"

\* C19: the posts of the index, written as JSON and read back, equal the
\* posts of the index field for field.
C19_JsonRoundTripIdentity ==
  IndexAnswered => JsonRoundTrip(response.posts) = response.posts

\* The files of the collection the index takes a post from.
Indexed(ps) == SelectSeq(ps, LAMBDA f : ~Skipped(f) /\ SlugOf(f.path) # <<>>)

\* C20: what the index answers is a function of the source collection at that
\* invocation alone: for the collection of the invocation before it answers
\* what it answered then, and after a file was added, removed or changed it
\* holds one post for each file of the new collection that is to be indexed
\* and nothing else.
C20_FunctionOfCollection ==
  IndexAnswered =>
    /\ (built.any /\ built.paths = paths) => response.posts = built.posts
    /\ Len(response.posts) = Len(Indexed(paths))
    /\ \A i \in 1..Len(Indexed(paths)) :
         \E k \in 1..Len(response.posts) :
           CarriesMetadataOf(response.posts[k], Indexed(paths)[i])
    /\ \A k \in 1..Len(response.posts) :
         \E i \in 1..Len(Indexed(paths)) :
           CarriesMetadataOf(response.posts[k], Indexed(paths)[i])

\* The index answers after a source file was removed whose post the index
\* of the build before holds.
C20_Witness ==
  /\ IndexAnswered
  /\ built.any
  /\ Len(paths) < Len(built.paths)
  /\ built.posts # <<>>
  /\ Len(response.posts) < Len(built.posts)

\* The routes that apply the tag ranking, the tag filter or lastUpdated to
\* the posts they fetched.
AppliesOperation(r) ==
  r.route \in {"home", "blog/tags", "feed.atom", "sitemap.xml"} /\ r.status = "ok"

\* C21: no operation modifies its input: rendering a route leaves the source
\* collection and every record of it as they were, and the posts array a
\* route fetched holds the same records, with the same tags, in the same
\* order after the tag ranking, the tag filter or lastUpdated was applied.
C21_InputsUnchanged ==
  [][/\ paths' = paths
     /\ AppliesOperation(response') => response'.input = FetchPosts(paths).posts]_vars

\* The home page answered for three posts: it shows two of them, so its
\* result is another array than the one it fetched, which still holds three.
C21_Witness ==
  /\ response.route = "home" /\ response.status = "ok"
  /\ Len(response.input) = 3
  /\ Len(response.posts) = 2
  /\ response.tags # <<>>

\* The source files at the path of the slug: one or none.
FilesOfSlug(slug) == {f \in Elements(paths) : f.path = PostsDir \o slug \o DotMd}

\* C22: the single-post loader answers with the content and the metadata of
\* the source file '<slug>.md' whenever there is one, published or not, and
\* with a 404 error when there is none.
C22_PostBySlugOr404 ==
  response.route = "blog/[slug]" =>
    IF FilesOfSlug(response.slug) # {}
    THEN /\ response.status = "ok"
         /\ \E f \in FilesOfSlug(response.slug) :
              response.meta = f.metadata /\ response.content = f.path
    ELSE response.status = "error" /\ response.error = "404"

\* The loader answered with a draft, which the index does not list.
C22_Witness ==
  /\ response.route = "blog/[slug]" /\ response.status = "ok"
  /\ response.meta.defined
  /\ response.meta.fields.published = Bool(FALSE)
  /\ IndexPosts # <<>>
  /\ \A k \in 1..Len(IndexPosts) : IndexPosts[k].slug.chars # response.slug

\* The instant of v is later than every post's effective timestamp.
LaterThanAll(v, posts) ==
  \A i \in 1..Len(posts) : GetTime(v).v > GetTime(Effective(posts[i])).v

\* C23: what lastUpdated returns for a non-empty sequence of posts is one of
\* the `date` or `updated` strings of the posts and is not earlier than any
\* post's effective timestamp; it is later than all of them exactly when the
\* first post's `date` is (read off the sitemap, whose top-level lastmod is
\* the value returned; the dates of the posts all parse there).
C23_DateOfInputNotEarlier ==
  (response.route = "sitemap.xml" /\ response.status = "ok") =>
    LET posts == response.input
        v == response.updated
    IN /\ posts # <<>>
       /\ \E i \in 1..Len(posts) : v = posts[i].date \/ v = posts[i].updated
       /\ \A i \in 1..Len(posts) : NotEarlier(v, Effective(posts[i]))
       /\ LaterThanAll(v, posts) <=> LaterThanAll(posts[1].date, posts)

\* The sitemap answered for posts of which the first has an `updated` earlier
\* than its `date`, and that `date` is later than every effective timestamp.
C23_Witness ==
  /\ response.route = "sitemap.xml" /\ response.status = "ok"
  /\ Len(response.input) >= 2
  /\ response.input[1].updated.t = "string"
  /\ LaterThanAll(response.updated, response.input)

\* C24: a tag is in the tag ranking of the home page exactly when the tag
\* listing for it is not empty (stated for posts that each have a tags array).
C24_RankedIffListed ==
  (response.route = "home" /\ response.status = "ok" /\ AllTagged) =>
    \A t \in TagParams \cup TagsInUse \cup Elements(response.tags) :
      (\E k \in 1..Len(response.tags) : response.tags[k] = t)
        <=> (TagLoad(paths, t).status = "ok" /\ TagLoad(paths, t).posts # <<>>)

\* The home page ranks tags while a draft carries a tag of its own, which is
\* not ranked.
C24_Witness ==
  /\ response.route = "home" /\ response.status = "ok" /\ AllTagged
  /\ Len(response.tags) >= 2
  /\ \E i \in 1..Len(paths) :
       /\ paths[i].metadata.fields.published = Bool(FALSE)
       /\ paths[i].metadata.fields.tags = TagsArr(<<"x">>)
  /\ \A k \in 1..Len(response.tags) : response.tags[k] # "x"

\* The slugs of a sequence of posts, in its order.
SlugsOf(posts) == [i \in 1..Len(posts) |-> posts[i].slug.chars]

\* The canonical URLs of the posts of the index, in index order.
IndexUrls == [i \in 1..Len(IndexPosts) |-> CanonicalUrl(IndexPosts[i])]

\* C25: the blog listing, the entries of the feed and the post URLs of the
\* sitemap list the slugs of the post index, each as often as the index has
\* it and in index order.
C25_ViewsListIndexSlugs ==
  /\ (response.route = "blog" /\ response.status = "ok") =>
       SlugsOf(response.posts) = SlugsOf(IndexPosts)
  /\ (response.route = "feed.atom" /\ response.status = "ok") =>
       [i \in 1..Len(response.entries) |-> response.entries[i].link] = IndexUrls
  /\ (response.route = "sitemap.xml" /\ response.status = "ok") =>
       /\ Len(response.urls) >= 2
       /\ [i \in 1..(Len(response.urls) - 2) |-> response.urls[i + 2].loc] = IndexUrls

\* The blog listing of three posts that the index does not hold in the order
\* of discovery.
C25_Witness ==
  /\ response.route = "blog" /\ response.status = "ok"
  /\ Len(response.posts) = 3
  /\ SlugsOf(response.posts) # [i \in 1..Len(paths) |-> SlugOf(paths[i].path)]

\* The first two posts of a sequence, or all of it when it is shorter.
FirstTwo(posts) == SubSeq(posts, 1, IF Len(posts) < 2 THEN Len(posts) ELSE 2)

\* C26: the home page returns as posts the first min(2, n) posts of the
\* n-post index, in index order, and as tags the tag ranking of all n posts.
C26_TwoNewestAllTags ==
  (response.route = "home" /\ response.status = "ok") =>
    /\ response.posts = FirstTwo(Fetched)
    /\ response.tags = Tags(Fetched)
    /\ AllTagged => Elements(response.tags) = TagsInUse

\* The home page shows two of three posts and ranks a tag that only the post
\* not shown carries.
C26_Witness ==
  /\ response.route = "home" /\ response.status = "ok"
  /\ Len(Fetched) = 3 /\ Len(response.posts) = 2
  /\ AllTagged
  /\ \E k \in 1..Len(response.tags) :
       /\ response.tags[k] \in Elements(Fetched[3].tags.items)
       /\ response.tags[k] \notin Elements(Fetched[1].tags.items)
       /\ response.tags[k] \notin Elements(Fetched[2].tags.items)

\* The Posts of the files that are indexed, in the order of discovery.
Discovered == [i \in 1..Len(Indexed(paths)) |-> PostOf(Indexed(paths)[i])]

\* Two dates are identical: the same value, or values of the same instant.
SameDate(d1, d2) ==
  d1 = d2 \/ (~GetTime(d1).nan /\ ~GetTime(d2).nan /\ GetTime(d1) = GetTime(d2))

\* The posts of the sequence whose date is identical to d, in its order.
DatedAs(posts, d) == SelectSeq(posts, LAMBDA post : SameDate(post.date, d))

\* C27: the posts of the index that have identical dates stand in the order
\* in which source discovery enumerated their paths (the sort is stable).
C27_EqualDatesInDiscoveryOrder ==
  IndexAnswered =>
    \A k \in 1..Len(response.posts) :
      DatedAs(response.posts, response.posts[k].date)
        = DatedAs(Discovered, response.posts[k].date)

\* The posts are ordered newest first by date.
NewestFirst(posts) ==
  \A k, l \in 1..Len(posts) : k < l => NotEarlier(posts[k].date, posts[l].date)

\* C28: filtering the posts of a tag listing by its tag again returns them
\* unchanged, and when the posts the listing was filtered from are ordered
\* newest first by date the listing is ordered newest first too.
C28_FilterIdempotentOrdered ==
  (response.route = "blog/tags" /\ response.status = "ok") =>
    /\ SelectSeq(response.posts, LAMBDA post : HasTag(post, response.tag)) = response.posts
    /\ NewestFirst(response.input) => NewestFirst(response.posts)

\* A tag listing of two posts of different dates, filtered from three posts
\* ordered newest first of which the second does not carry the tag.
C28_Witness ==
  /\ response.route = "blog/tags" /\ response.status = "ok"
  /\ Len(response.input) = 3 /\ NewestFirst(response.input)
  /\ ~HasTag(response.input[2], response.tag)
  /\ Len(response.posts) = 2
  /\ GetTime(response.posts[1].date).v > GetTime(response.posts[2].date).v

\* The file is named exactly '.md'.
NamedDotMd(file) == file.path = PostsDir \o DotMd

\* C29: a source file with published = true that is named exactly '.md', whose
\* derived slug is the empty string, gives no Post and no error; every Post of
\* the index has a non-empty slug.
C29_EmptySlugExcluded ==
  response.route = "api/posts" =>
    /\ response.status = "ok"
    /\ \A k \in 1..Len(response.posts) :
         response.posts[k].slug.t = "string" /\ response.posts[k].slug.chars # <<>>
    /\ Len(response.posts)
         = Len(SelectSeq(paths, LAMBDA f : ~Skipped(f) /\ ~NamedDotMd(f)))

\* The index answered with the one post of a collection of two published
\* files, the other of which is named '.md'.
C29_Witness ==
  /\ IndexAnswered
  /\ Len(paths) = 2 /\ Len(response.posts) = 1
  /\ \E i \in 1..Len(paths) : NamedDotMd(paths[i]) /\ PublishedTrue(paths[i])

====
